---- MODULE Spec2Model ----
(***************************************************************************)
(* The order service of lugx-gaming (src/unnamed/part_002): an express     *)
(* application over a PostgreSQL connection pool.  The model holds the two *)
(* tables, the pooled connections with their transaction state and         *)
(* uncommitted writes (read-committed isolation, row locks, the UNIQUE     *)
(* index on order_number), the clock read by Date.now(), and one record    *)
(* per request being handled.  Every statement a handler awaits is one     *)
(* action, together with the synchronous code that follows it; a request's *)
(* arrival, its pool.connect() and its first statement are one action, as  *)
(* nothing can observe the connection in between.                          *)
(*                                                                         *)
(* The sections after it model the rest of the repository the same way:    *)
(* the game service (src/services/game-service/index.js) over its games    *)
(* table with the UNIQUE index on name; the database set-up loop each      *)
(* service runs before it listens; the analytics service                   *)
(* (src/services/analytics-service/index.js), whose queries are strings    *)
(* the model builds and reads back as ClickHouse does; and the two         *)
(* deployment scripts (src/unnamed/part_000, part_001) as the commands     *)
(* they run.  Each section has its own next-state relation and its own     *)
(* specification.                                                          *)
(***************************************************************************)
EXTENDS Integers, Sequences, FiniteSets, TLC

\* ---------------------------------------------------------------- bounds

MaxRequests == 3    \* requests handled in one behaviour
MaxItems == 2       \* longest items list of a request body
MaxClock == 2       \* the last millisecond of the clock
MaxFaults == 1      \* connection losses in one behaviour

MaxProcs == 2       \* requests handled at the same time
PoolSize == 2       \* connections the pool holds

Procs == 1..MaxProcs
Conns == 1..PoolSize

\* ------------------------------------------------------------ JS values

Undefined == "undefined"
Null == "null"

\* A request's product_price: a number (in cents), absent, or a string that
\* is no number.
Num(n) == [k |-> "num", v |-> n]
NoPrice == [k |-> "missing", v |-> 0]
BadPrice == [k |-> "str", v |-> 0]

\* A request's quantity: absent, or an integer.
Qty(n) == [has |-> TRUE, v |-> n]
NoQty == [has |-> FALSE, v |-> 0]

Item(t, p, q) == [product_title |-> t, product_price |-> p, quantity |-> q]

\* parseFloat(x): NaN for an absent value or a non-numeric string
ParseFloat(p) == IF p.k = "num" THEN [nan |-> FALSE, v |-> p.v] ELSE [nan |-> TRUE, v |-> 0]

\* x || 0 on a number: NaN and 0 are falsy
OrZero(x) == IF x.nan \/ x.v = 0 THEN 0 ELSE x.v

\* item.quantity || 1: undefined and 0 are falsy
QtyOrOne(q) == IF ~q.has \/ q.v = 0 THEN 1 ELSE q.v

\* items.reduce((sum, item) => sum + (parseFloat(item.product_price) || 0), 0)
RECURSIVE Total(_)
Total(items) ==
    IF items = <<>> THEN 0
    ELSE Total(SubSeq(items, 1, Len(items) - 1))
         + OrZero(ParseFloat(items[Len(items)].product_price))

\* 'LUGX-' + Date.now()
OrderNum(t) == <<"LUGX-", t>>

\* !user_id || !items || !Array.isArray(items)
Invalid(user_id, items_kind) == user_id = Undefined \/ items_kind # "array"

\* A list that validates nothing: it holds the status the requests ask for.
validStatusesAndMore ==
    {"pending", "confirmed", "processing", "shipped", "delivered", "cancelled", "bogus"}

validStatuses == {"pending", "confirmed", "processing", "shipped", "delivered", "cancelled"}

\* ----------------------------------------------------------------- state

VARIABLES
    orders,        \* committed rows of table orders
    order_items,   \* committed rows of table order_items
    conn,          \* the pool's connections: checked out, transaction, writes
    req,           \* the requests being handled, one per process
    now,           \* the clock Date.now() reads
    nextId,        \* the next value of gen_random_uuid()
    nreq,          \* requests started so far
    faults,        \* connection losses so far
    ordersTotal    \* the orders_total counter

\* A UUID no order ever had, and a string that is no UUID.
NoSuchId == 0
BadId == -1

\* The state of the order service.
orderVars == <<orders, order_items, conn, req, now, nextId, nreq, faults, ordersTotal>>

\* The game service (src/services/game-service/index.js): its table and the
\* requests it handles.  Every statement goes through pool.query and commits
\* on its own.
VARIABLES
    games,         \* rows of table games
    greq,          \* the requests being handled, one per process
    gnextId,       \* the next value of gen_random_uuid()
    gnreq          \* requests started so far

gameVars == <<games, greq, gnextId, gnreq>>

\* The start of the three services: where each process is in its schema
\* initialization.
VARIABLES
    svc            \* per service: phase, retries left, attempts, requests

startVars == <<svc>>

\* The analytics service (src/services/analytics-service/index.js): the
\* events table in ClickHouse and the requests it handles.
VARIABLES
    events,        \* rows of table lugx_analytics.events
    areq,          \* the requests being handled, one per process
    aclock,        \* the second new Date() reads
    anreq,         \* requests started so far
    awrites        \* INSERT and ALTER statements the table took so far

analyticsVars == <<events, areq, aclock, anreq, awrites>>

\* The deployment scripts (src/unnamed/part_000, src/unnamed/part_001) and
\* the cluster they update.
VARIABLES
    cluster,       \* the deployments of the cluster
    dep            \* the script that runs: where it is, its exit code

deployVars == <<cluster, dep>>

\* What a step of the order service, of the game service, of a starting
\* service, of the analytics service and of a script leaves alone.
others == <<gameVars, startVars, analyticsVars, deployVars>>

gameOthers == <<orderVars, startVars, analyticsVars, deployVars>>

startOthers == <<orderVars, gameVars, analyticsVars, deployVars>>

analyticsOthers == <<orderVars, gameVars, startVars, deployVars>>

deployOthers == <<orderVars, gameVars, startVars, analyticsVars>>

vars == <<orderVars, gameVars, startVars, analyticsVars, deployVars>>

\* A connection outside any transaction, as the pool opens it.
FreshConn == [busy |-> FALSE, txn |-> "none", lost |-> FALSE,
              ins |-> {}, items |-> {}, upd |-> {}, del |-> {}]

\* No request on this process.
IdleReq == [pc |-> "idle", kind |-> "none", id |-> 0,
            user_id |-> Undefined, items_kind |-> "missing", items |-> <<>>,
            customer_email |-> Undefined, status |-> Undefined,
            client |-> 0, order |-> {}, orderNum |-> OrderNum(0), total |-> 0, i |-> 0,
            res |-> 0, resOrder |-> {}, resItems |-> {}, resValid |-> {},
            acquired |-> 0, released |-> 0, stmts |-> 0, threw |-> "none"]

\* The tables outlive the service (CREATE TABLE IF NOT EXISTS): it starts
\* on the order an earlier run created at time 0 from one item, as
\* PostInsertOrder and PostInsertItem write it.
SeedOrder == [id |-> 1, order_number |-> OrderNum(0), user_id |-> "u0",
              status |-> "pending", total_amount |-> 1999,
              customer_email |-> "a@x", created_at |-> 0]

SeedItem == [id |-> <<1, 1>>, order_id |-> 1, product_title |-> "Game A",
             product_price |-> 1999, quantity |-> 2]

OrdersInit ==
    /\ orders = {SeedOrder}
    /\ order_items = {SeedItem}
    /\ conn = [c \in Conns |-> FreshConn]
    /\ req = [p \in Procs |-> IdleReq]
    /\ now = 1
    /\ nextId = 2
    /\ nreq = 0
    /\ faults = 0
    /\ ordersTotal = 0

\* ------------------------------------------------------------- the store

Ids(rows) == {x.id : x \in rows}

\* BEGIN: opens a transaction; inside one it only warns.
Begin(w) == IF w.txn = "none" THEN [w EXCEPT !.txn = "open"] ELSE w

\* A failed statement aborts the transaction it ran in.
StmtError(w) == IF w.txn = "open" THEN [w EXCEPT !.txn = "aborted"] ELSE w

\* A lost connection: the server rolls its transaction back.
Lose(w) == [FreshConn EXCEPT !.busy = w.busy, !.lost = TRUE]

\* COMMIT or ROLLBACK leaves the connection outside any transaction.
EndTxn(w) == [FreshConn EXCEPT !.busy = w.busy]

\* A release that is skipped when the ROLLBACK has thrown (release() after
\* the catch block instead of in finally).
ReleaseUnlessThrown(w) == IF w.lost THEN w ELSE [w EXCEPT !.busy = FALSE]

\* client.release(): the pool keeps the connection as it is, transaction
\* included, and replaces a lost one.
Release(w) == IF w.lost THEN FreshConn ELSE [w EXCEPT !.busy = FALSE]

\* A foreign key without ON DELETE CASCADE that lets the items stay.
NoCascade(its, del) == its

\* order_id UUID REFERENCES orders(id) ON DELETE CASCADE
Cascade(its, del) == {x \in its : x.order_id \notin del}

\* What the tables hold once the writes of w are committed.
CommitOrders(w) ==
    {x \in orders : x.id \notin w.del /\ x.id \notin Ids(w.upd)}
        \cup {x \in w.upd \cup w.ins : x.id \notin w.del}

CommitItems(w) == Cascade(order_items \cup w.items, w.del)

\* What the tables hold once the writes of w are rolled back.
RollbackOrders(w) == orders

RollbackItems(w) == order_items

\* Read committed: a statement sees the committed rows and the writes of
\* its own transaction.
VisibleOrders(w) == IF w.txn = "open" THEN CommitOrders(w) ELSE orders

VisibleItems(w) == IF w.txn = "open" THEN CommitItems(w) ELSE order_items

\* Row locks: an UPDATE or DELETE of a row waits for the transaction that
\* wrote it.
Locked(c, id) ==
    \E d \in Conns \ {c} :
        conn[d].txn # "none" /\ id \in Ids(conn[d].upd) \cup conn[d].del

\* order_number UNIQUE: an insert waits for a transaction that wrote the
\* same key, and fails on a committed or own duplicate.
UniqueWait(c, num) ==
    \E d \in Conns \ {c} :
        /\ conn[d].txn # "none"
        /\ \/ \E x \in conn[d].ins : x.order_number = num
           \/ \E x \in orders : x.order_number = num /\ x.id \in conn[d].del

UniqueViolation(w, num) == \E x \in VisibleOrders(w) : x.order_number = num

\* NOT NULL on product_title and product_price, DECIMAL(10,2)
ItemRejected(item) ==
    item.product_title = Undefined \/ item.product_price.k # "num"

\* undefined is sent as NULL
Param(v) == IF v = Undefined THEN Null ELSE v

CanFault == faults < MaxFaults

\* --------------------------------------------------------- POST /orders

\* A process takes a request when it handles none.  Processes that handle
\* none are alike: the lowest of them takes the request.
Free(p) ==
    /\ req[p].pc \in {"idle", "done"}
    /\ nreq < MaxRequests
    /\ req[p].pc = "idle" => \A q \in Procs : q < p => req[q].pc # "idle"

\* The pool hands out any idle connection.  Idle connections in the same
\* state are alike: the lowest of them stands for all.
Idle(c) ==
    /\ ~conn[c].busy
    /\ \A d \in Conns : d < c => conn[d].busy \/ conn[d] # conn[c]

\* pool.connect() hands the request a connection.
Checkout(w) == [w EXCEPT !.busy = TRUE]

\* The statement throws into the handler's catch block.
Thrown(r) == [r EXCEPT !.pc = "catch", !.stmts = r.stmts + 1, !.threw = r.pc]

\* finally { client.release() } after a response with the given status
Finally(r, status) ==
    [r EXCEPT !.pc = "done", !.res = status, !.released = r.released + 1]

\* The request arrives: pool.connect(), await client.query('BEGIN'), then
\* the validation of the body.
PostBegin(p, Bodies) ==
    /\ Free(p)
    /\ \E c \in Conns, b \in Bodies :
        LET w == Checkout(conn[c])
            r == [IdleReq EXCEPT !.pc = "begin", !.kind = "post",
                    !.user_id = b.user_id, !.items_kind = b.items_kind,
                    !.items = b.items, !.customer_email = b.customer_email,
                    !.client = c, !.acquired = 1]
        IN
        /\ Idle(c)
        /\ \/ /\ CanFault
              /\ faults' = faults + 1
              /\ conn' = [conn EXCEPT ![c] = Lose(w)]
              /\ req' = [req EXCEPT ![p] = Thrown(r)]
           \/ /\ w.txn = "aborted"
              /\ conn' = [conn EXCEPT ![c] = w]
              /\ req' = [req EXCEPT ![p] = Thrown(r)]
              /\ UNCHANGED faults
           \/ /\ w.txn # "aborted"
              /\ Invalid(r.user_id, r.items_kind)
              /\ conn' = [conn EXCEPT ![c] = Release(Begin(w))]
              /\ req' = [req EXCEPT ![p] = Finally([r EXCEPT !.stmts = 1], 400)]
              /\ UNCHANGED faults
           \/ /\ w.txn # "aborted"
              /\ ~Invalid(r.user_id, r.items_kind)
              /\ conn' = [conn EXCEPT ![c] = Begin(w)]
              /\ req' = [req EXCEPT ![p] =
                    [r EXCEPT !.pc = "insert_order", !.stmts = 1,
                        !.total = Total(r.items), !.orderNum = OrderNum(now)]]
              /\ UNCHANGED faults
    /\ nreq' = nreq + 1
    /\ UNCHANGED <<orders, order_items, now, nextId, ordersTotal, others>>

\* The header inserted through the pool, outside the transaction.
InsertHeaderAutocommit(w, row) == [w |-> w, orders |-> orders \cup {row}]

\* client.query(INSERT INTO orders ...): the row is a write of the
\* connection's transaction.
InsertHeader(w, row) == [w |-> [w EXCEPT !.ins = w.ins \cup {row}], orders |-> orders]

\* INSERT INTO orders ... RETURNING *
PostInsertOrder(p) ==
    LET r == req[p]
        c == r.client
        w == conn[c]
        row == [id |-> nextId, order_number |-> r.orderNum, user_id |-> r.user_id,
                status |-> "pending", total_amount |-> r.total,
                customer_email |-> Param(r.customer_email), created_at |-> now]
    IN
    /\ r.pc = "insert_order"
    /\ \/ /\ CanFault
          /\ faults' = faults + 1
          /\ conn' = [conn EXCEPT ![c] = Lose(w)]
          /\ req' = [req EXCEPT ![p] = Thrown(r)]
          /\ UNCHANGED <<nextId, orders>>
       \/ /\ ~UniqueWait(c, r.orderNum)
          /\ UniqueViolation(w, r.orderNum)
          /\ conn' = [conn EXCEPT ![c] = StmtError(w)]
          /\ req' = [req EXCEPT ![p] = Thrown(r)]
          /\ UNCHANGED <<nextId, faults, orders>>
       \/ /\ ~UniqueWait(c, r.orderNum)
          /\ ~UniqueViolation(w, r.orderNum)
          /\ conn' = [conn EXCEPT ![c] = InsertHeader(w, row).w]
          /\ orders' = InsertHeader(w, row).orders
          /\ req' = [req EXCEPT ![p] =
                [r EXCEPT !.pc = IF r.items = <<>> THEN "commit" ELSE "insert_item",
                    !.stmts = r.stmts + 1, !.order = {row}, !.i = 1]]
          /\ nextId' = nextId + 1
          /\ UNCHANGED faults
    /\ UNCHANGED <<order_items, now, nreq, ordersTotal, others>>

\* for (const item of items) INSERT INTO order_items ...
PostInsertItem(p) ==
    LET r == req[p]
        c == r.client
        w == conn[c]
        item == r.items[r.i]
        order == CHOOSE x \in r.order : TRUE
        row == [id |-> <<order.id, r.i>>, order_id |-> order.id,
                product_title |-> item.product_title,
                product_price |-> item.product_price.v,
                quantity |-> QtyOrOne(item.quantity)]
    IN
    /\ r.pc = "insert_item"
    /\ \/ /\ CanFault
          /\ faults' = faults + 1
          /\ conn' = [conn EXCEPT ![c] = Lose(w)]
          /\ req' = [req EXCEPT ![p] = Thrown(r)]
       \/ /\ ItemRejected(item)
          /\ conn' = [conn EXCEPT ![c] = StmtError(w)]
          /\ req' = [req EXCEPT ![p] = Thrown(r)]
          /\ UNCHANGED faults
       \/ /\ ~ItemRejected(item)
          /\ conn' = [conn EXCEPT ![c].items = w.items \cup {row}]
          /\ req' = [req EXCEPT ![p] =
                [r EXCEPT !.pc = IF r.i = Len(r.items) THEN "commit" ELSE "insert_item",
                    !.stmts = r.stmts + 1, !.i = r.i + 1]]
          /\ UNCHANGED faults
    /\ UNCHANGED <<orders, order_items, now, nextId, nreq, ordersTotal, others>>

\* COMMIT, ordersTotal.inc(), res.status(201).json(order)
PostCommit(p) ==
    LET r == req[p]
        c == r.client
        w == conn[c]
    IN
    /\ r.pc = "commit" /\ r.kind = "post"
    /\ \/ /\ CanFault
          /\ faults' = faults + 1
          /\ conn' = [conn EXCEPT ![c] = Lose(w)]
          /\ req' = [req EXCEPT ![p] = Thrown(r)]
          \* the connection is lost before the COMMIT or after it took effect
          /\ \/ UNCHANGED <<orders, order_items>>
             \/ orders' = CommitOrders(w) /\ order_items' = CommitItems(w)
          /\ UNCHANGED ordersTotal
       \/ /\ orders' = CommitOrders(w)
          /\ order_items' = CommitItems(w)
          /\ conn' = [conn EXCEPT ![c] = Release(EndTxn(w))]
          /\ req' = [req EXCEPT ![p] =
                Finally([r EXCEPT !.stmts = r.stmts + 1, !.resOrder = r.order], 201)]
          /\ ordersTotal' = ordersTotal + 1
          /\ UNCHANGED faults
    /\ UNCHANGED <<now, nextId, nreq, others>>

\* catch: ROLLBACK and the 500 response; a ROLLBACK that throws leaves the
\* handler through finally without a response.
PostCatch(p) ==
    LET r == req[p]
        c == r.client
        w == conn[c]
    IN
    /\ r.pc = "catch" /\ r.kind = "post"
    /\ \/ /\ w.lost
          /\ conn' = [conn EXCEPT ![c] = Release(w)]
          /\ req' = [req EXCEPT ![p] = Finally(r, 0)]
          /\ UNCHANGED <<orders, order_items, faults>>
       \/ /\ ~w.lost /\ CanFault
          /\ faults' = faults + 1
          /\ conn' = [conn EXCEPT ![c] = Release(Lose(w))]
          /\ req' = [req EXCEPT ![p] = Finally(r, 0)]
          /\ UNCHANGED <<orders, order_items>>
       \/ /\ ~w.lost
          /\ orders' = RollbackOrders(w)
          /\ order_items' = RollbackItems(w)
          /\ conn' = [conn EXCEPT ![c] = Release(EndTxn(w))]
          /\ req' = [req EXCEPT ![p] = Finally(r, 500)]
          /\ UNCHANGED faults
    /\ UNCHANGED <<now, nextId, nreq, ordersTotal, others>>

\* ------------------------------------------------------ PUT /orders/:id

\* Ids a client can name: an order that was created, a UUID of no order,
\* or a string that is no UUID.
TargetIds == (1..(nextId - 1)) \cup {NoSuchId, BadId}

PutBodies == [status : {Undefined, "pending", "delivered", "bogus"},
              customer_email : {Undefined, "b@x"}]

\* The handler's own catch block: res.status(500)
Failed(r) == [r EXCEPT !.pc = "done", !.res = 500, !.stmts = r.stmts + 1]

\* An UPDATE of both columns, whatever the body supplies.
ApplyUpdateBoth(row, status, customer_email) ==
    [row EXCEPT
        !.status = IF status # Undefined THEN status ELSE @,
        !.customer_email = Param(customer_email)]

\* UPDATE orders SET <the supplied fields> WHERE id = $n RETURNING *
ApplyUpdate(row, status, customer_email) ==
    [row EXCEPT
        !.status = IF status # Undefined THEN status ELSE @,
        !.customer_email = IF customer_email # Undefined THEN customer_email ELSE @]

\* The request arrives: pool.query('SELECT * FROM orders WHERE id = $1'),
\* then the validation of the body.
PutSelect(p) ==
    /\ Free(p)
    /\ \E c \in Conns, id \in TargetIds, b \in PutBodies :
        LET w == conn[c]
            r == [IdleReq EXCEPT !.pc = "select", !.kind = "put", !.id = id,
                    !.status = b.status, !.customer_email = b.customer_email]
            rows == {x \in VisibleOrders(w) : x.id = id}
            q == [r EXCEPT !.stmts = 1, !.order = rows]
        IN
        /\ Idle(c)
        /\ \/ /\ CanFault
              /\ faults' = faults + 1
              /\ conn' = [conn EXCEPT ![c] = Release(Lose(w))]
              /\ req' = [req EXCEPT ![p] = Failed(r)]
           \/ /\ w.txn = "aborted" \/ id = BadId
              /\ conn' = [conn EXCEPT ![c] = StmtError(w)]
              /\ req' = [req EXCEPT ![p] = Failed(r)]
              /\ UNCHANGED faults
           \/ /\ w.txn # "aborted" /\ id # BadId
              /\ req' = [req EXCEPT ![p] =
                    IF rows = {} THEN [q EXCEPT !.pc = "done", !.res = 404]
                    ELSE IF r.status # Undefined /\ r.status \notin validStatuses
                    THEN [q EXCEPT !.pc = "done", !.res = 400, !.resValid = validStatuses]
                    ELSE IF r.status = Undefined /\ r.customer_email = Undefined
                    THEN [q EXCEPT !.pc = "done", !.res = 400]
                    ELSE [q EXCEPT !.pc = "update"]]
              /\ UNCHANGED <<conn, faults>>
    /\ nreq' = nreq + 1
    /\ UNCHANGED <<orders, order_items, now, nextId, ordersTotal, others>>

\* pool.query(UPDATE ...), res.json({ order: result.rows[0] })
PutUpdate(p) ==
    LET r == req[p] IN
    /\ r.pc = "update"
    /\ \E c \in Conns :
        LET w == conn[c]
            old == {x \in VisibleOrders(w) : x.id = r.id}
            new == {ApplyUpdate(x, r.status, r.customer_email) : x \in old}
        IN
        /\ Idle(c)
        /\ \/ /\ CanFault
              /\ faults' = faults + 1
              /\ conn' = [conn EXCEPT ![c] = Release(Lose(w))]
              /\ req' = [req EXCEPT ![p] = Failed(r)]
              /\ UNCHANGED orders
           \/ /\ w.txn = "aborted"
              /\ req' = [req EXCEPT ![p] = Failed(r)]
              /\ UNCHANGED <<orders, conn, faults>>
           \/ /\ w.txn = "none"
              /\ ~Locked(c, r.id)
              /\ orders' = (orders \ old) \cup new
              /\ req' = [req EXCEPT ![p] =
                    [r EXCEPT !.pc = "done", !.res = 200, !.resOrder = new,
                        !.stmts = r.stmts + 1]]
              /\ UNCHANGED <<conn, faults>>
           \/ /\ w.txn = "open"
              /\ ~Locked(c, r.id)
              /\ conn' = [conn EXCEPT ![c].upd =
                    {x \in w.upd : x.id # r.id} \cup new]
              /\ req' = [req EXCEPT ![p] =
                    [r EXCEPT !.pc = "done", !.res = 200, !.resOrder = new,
                        !.stmts = r.stmts + 1]]
              /\ UNCHANGED <<orders, faults>>
    /\ UNCHANGED <<order_items, now, nextId, nreq, ordersTotal, others>>

\* ------------------------------------------------------ GET /orders/:id

\* The request arrives: pool.query('SELECT * FROM orders WHERE id = $1')
GetSelectOrder(p) ==
    /\ Free(p)
    /\ \E c \in Conns, id \in TargetIds :
        LET w == conn[c]
            r == [IdleReq EXCEPT !.pc = "select", !.kind = "get", !.id = id]
            rows == {x \in VisibleOrders(w) : x.id = id}
        IN
        /\ Idle(c)
        /\ \/ /\ CanFault
              /\ faults' = faults + 1
              /\ conn' = [conn EXCEPT ![c] = Release(Lose(w))]
              /\ req' = [req EXCEPT ![p] = Failed(r)]
           \/ /\ w.txn = "aborted" \/ id = BadId
              /\ conn' = [conn EXCEPT ![c] = StmtError(w)]
              /\ req' = [req EXCEPT ![p] = Failed(r)]
              /\ UNCHANGED faults
           \/ /\ w.txn # "aborted" /\ id # BadId
              /\ req' = [req EXCEPT ![p] =
                    IF rows = {}
                    THEN [r EXCEPT !.pc = "done", !.res = 404, !.stmts = 1]
                    ELSE [r EXCEPT !.pc = "select_items", !.order = rows, !.stmts = 1]]
              /\ UNCHANGED <<conn, faults>>
    /\ nreq' = nreq + 1
    /\ UNCHANGED <<orders, order_items, now, nextId, ordersTotal, others>>

\* pool.query('SELECT * FROM order_items WHERE order_id = $1'), res.json
GetSelectItems(p) ==
    LET r == req[p] IN
    /\ r.pc = "select_items"
    /\ \E c \in Conns :
        LET w == conn[c] IN
        /\ Idle(c)
        /\ \/ /\ CanFault
              /\ faults' = faults + 1
              /\ conn' = [conn EXCEPT ![c] = Release(Lose(w))]
              /\ req' = [req EXCEPT ![p] = Failed(r)]
           \/ /\ w.txn = "aborted"
              /\ req' = [req EXCEPT ![p] = Failed(r)]
              /\ UNCHANGED <<conn, faults>>
           \/ /\ w.txn # "aborted"
              /\ req' = [req EXCEPT ![p] =
                    [r EXCEPT !.pc = "done", !.res = 200, !.resOrder = r.order,
                        !.resItems = {x \in VisibleItems(w) : x.order_id = r.id},
                        !.stmts = r.stmts + 1]]
              /\ UNCHANGED <<conn, faults>>
    /\ UNCHANGED <<orders, order_items, now, nextId, nreq, ordersTotal, others>>

\* --------------------------------------------------- DELETE /orders/:id

\* The request arrives: pool.connect(), await client.query('BEGIN')
DeleteBegin(p) ==
    /\ Free(p)
    /\ \E c \in Conns, id \in TargetIds :
        LET w == Checkout(conn[c])
            r == [IdleReq EXCEPT !.pc = "begin", !.kind = "delete", !.id = id,
                    !.client = c, !.acquired = 1]
        IN
        /\ Idle(c)
        /\ \/ /\ CanFault
              /\ faults' = faults + 1
              /\ conn' = [conn EXCEPT ![c] = Lose(w)]
              /\ req' = [req EXCEPT ![p] = Thrown(r)]
           \/ /\ w.txn = "aborted"
              /\ conn' = [conn EXCEPT ![c] = w]
              /\ req' = [req EXCEPT ![p] = Thrown(r)]
              /\ UNCHANGED faults
           \/ /\ w.txn # "aborted"
              /\ conn' = [conn EXCEPT ![c] = Begin(w)]
              /\ req' = [req EXCEPT ![p] = [r EXCEPT !.pc = "select", !.stmts = 1]]
              /\ UNCHANGED faults
    /\ nreq' = nreq + 1
    /\ UNCHANGED <<orders, order_items, now, nextId, ordersTotal, others>>

\* client.query('SELECT * FROM orders WHERE id = $1'), 404 when no row
DeleteSelect(p) ==
    LET r == req[p]
        c == r.client
        w == conn[c]
        rows == {x \in VisibleOrders(w) : x.id = r.id}
    IN
    /\ r.pc = "select" /\ r.kind = "delete"
    /\ \/ /\ CanFault
          /\ faults' = faults + 1
          /\ conn' = [conn EXCEPT ![c] = Lose(w)]
          /\ req' = [req EXCEPT ![p] = Thrown(r)]
       \/ /\ r.id = BadId
          /\ conn' = [conn EXCEPT ![c] = StmtError(w)]
          /\ req' = [req EXCEPT ![p] = Thrown(r)]
          /\ UNCHANGED faults
       \/ /\ r.id # BadId /\ rows = {}
          /\ conn' = [conn EXCEPT ![c] = Release(w)]
          /\ req' = [req EXCEPT ![p] = Finally([r EXCEPT !.stmts = r.stmts + 1], 404)]
          /\ UNCHANGED faults
       \/ /\ r.id # BadId /\ rows # {}
          /\ req' = [req EXCEPT ![p] =
                [r EXCEPT !.pc = "delete", !.order = rows, !.stmts = r.stmts + 1]]
          /\ UNCHANGED <<conn, faults>>
    /\ UNCHANGED <<orders, order_items, now, nextId, nreq, ordersTotal, others>>

\* client.query('DELETE FROM orders WHERE id = $1')
DeleteDelete(p) ==
    LET r == req[p]
        c == r.client
        w == conn[c]
    IN
    /\ r.pc = "delete"
    /\ \/ /\ CanFault
          /\ faults' = faults + 1
          /\ conn' = [conn EXCEPT ![c] = Lose(w)]
          /\ req' = [req EXCEPT ![p] = Thrown(r)]
       \/ /\ ~Locked(c, r.id)
          /\ conn' = [conn EXCEPT ![c].del =
                w.del \cup {x.id : x \in {y \in VisibleOrders(w) : y.id = r.id}}]
          /\ req' = [req EXCEPT ![p] =
                [r EXCEPT !.pc = "commit", !.stmts = r.stmts + 1]]
          /\ UNCHANGED faults
    /\ UNCHANGED <<orders, order_items, now, nextId, nreq, ordersTotal, others>>

\* COMMIT, res.json({ message, order: orderResult.rows[0] })
DeleteCommit(p) ==
    LET r == req[p]
        c == r.client
        w == conn[c]
    IN
    /\ r.pc = "commit" /\ r.kind = "delete"
    /\ \/ /\ CanFault
          /\ faults' = faults + 1
          /\ conn' = [conn EXCEPT ![c] = Lose(w)]
          /\ req' = [req EXCEPT ![p] = Thrown(r)]
          /\ \/ UNCHANGED <<orders, order_items>>
             \/ orders' = CommitOrders(w) /\ order_items' = CommitItems(w)
       \/ /\ orders' = CommitOrders(w)
          /\ order_items' = CommitItems(w)
          /\ conn' = [conn EXCEPT ![c] = Release(EndTxn(w))]
          /\ req' = [req EXCEPT ![p] =
                Finally([r EXCEPT !.stmts = r.stmts + 1, !.resOrder = r.order], 200)]
          /\ UNCHANGED faults
    /\ UNCHANGED <<now, nextId, nreq, ordersTotal, others>>

\* catch: ROLLBACK and the 500 response, then finally
DeleteCatch(p) ==
    LET r == req[p]
        c == r.client
        w == conn[c]
    IN
    /\ r.pc = "catch" /\ r.kind = "delete"
    /\ \/ /\ w.lost
          /\ conn' = [conn EXCEPT ![c] = Release(w)]
          /\ req' = [req EXCEPT ![p] = Finally(r, 0)]
          /\ UNCHANGED <<orders, order_items, faults>>
       \/ /\ ~w.lost /\ CanFault
          /\ faults' = faults + 1
          /\ conn' = [conn EXCEPT ![c] = Release(Lose(w))]
          /\ req' = [req EXCEPT ![p] = Finally(r, 0)]
          /\ UNCHANGED <<orders, order_items>>
       \/ /\ ~w.lost
          /\ orders' = RollbackOrders(w)
          /\ order_items' = RollbackItems(w)
          /\ conn' = [conn EXCEPT ![c] = Release(EndTxn(w))]
          /\ req' = [req EXCEPT ![p] = Finally(r, 500)]
          /\ UNCHANGED faults
    /\ UNCHANGED <<now, nextId, nreq, ordersTotal, others>>

\* ============================================================ game service

\* parseFloat(price) as the store keeps it
Price(p) == ParseFloat(p)

Game(id, name, category, price, description, featured) ==
    [id |-> id, name |-> name, category |-> category, price |-> Price(Num(price)),
     description |-> description, featured |-> featured, created_at |-> 0]

\* The rows initDB inserts (ON CONFLICT (name) DO NOTHING) before the
\* service listens.
SeedGames ==
    {Game(1, "Fortnite", "Battle Royale", 0, "Epic Battle Royale with building", "true"),
     Game(2, "Call of Duty: MW3", "FPS", 6999, "Latest Call of Duty installment", "true"),
     Game(3, "Minecraft", "Sandbox", 2695, "Block-building creative game", "true"),
     Game(4, "Cyberpunk 2077", "RPG", 3999, "Futuristic open-world RPG", "false"),
     Game(5, "The Witcher 3", "RPG", 1999, "Epic fantasy adventure", "true")}

NoGameBody == [name |-> Undefined, category |-> Undefined, price |-> NoPrice,
               description |-> Undefined, featured |-> Undefined]

\* No request on this process.
IdleGameReq == [pc |-> "idle", kind |-> "none", id |-> 0, body |-> NoGameBody,
                existingGame |-> {}, res |-> 0, resGame |-> {}, stmts |-> 0]

GamesInit ==
    /\ games = SeedGames
    /\ greq = [p \in Procs |-> IdleGameReq]
    /\ gnextId = 6
    /\ gnreq = 0

\* A process takes a request when it handles none; the lowest of the
\* processes that never handled one stands for all of them.
GameFree(p) ==
    /\ greq[p].pc \in {"idle", "done"}
    /\ gnreq < MaxRequests
    /\ greq[p].pc = "idle" => \A q \in Procs : q < p => greq[q].pc # "idle"

\* A constraint that lets two entries share a name.
NameNeverTaken(rows, name, id) == FALSE

\* name VARCHAR(255) NOT NULL UNIQUE: the name is the one of another row
NameTaken(rows, name, id) == \E x \in rows : x.name = name /\ x.id # id

\* !name || !category || price === undefined
InvalidGame(b) == b.name \in {Undefined, ""} \/ b.category \in {Undefined, ""} \/ b.price = NoPrice

\* The bodies of POST /games: with and without each required field, a name
\* of the catalog and a new one.
PostGameBodies ==
    [name : {Undefined, "Fortnite", "Doom"}, category : {Undefined, "FPS"},
     price : {NoPrice, Num(5999)}, description : {Undefined},
     featured : {Undefined, "true"}]

\* The bodies of PUT /games/:id: a rename to a name of the catalog or to a
\* new one, a new price, or nothing.
PutGameBodies ==
    [name : {Undefined, "Fortnite", "Minecraft", "Doom"}, category : {Undefined},
     price : {NoPrice, Num(100)}, description : {Undefined}, featured : {Undefined}]

\* Ids a client can name: two seeded games, a game that was created, a
\* UUID of no game, or a string that is no UUID.
GameIds == {1, 3} \cup (6..(gnextId - 1)) \cup {NoSuchId, BadId}

\* The response of a handler's catch block, or of an early return.
GameDone(r, status) == [r EXCEPT !.pc = "done", !.res = status]

\* POST /games: validation, INSERT ... RETURNING *, 409 on error 23505
GamePost(p) ==
    /\ GameFree(p)
    /\ \E b \in PostGameBodies :
        LET r == [IdleGameReq EXCEPT !.kind = "post", !.body = b]
            q == [r EXCEPT !.stmts = 1]
            row == [id |-> gnextId, name |-> b.name, category |-> b.category,
                    price |-> Price(b.price), description |-> Param(b.description),
                    featured |-> IF b.featured = Undefined THEN "false" ELSE b.featured,
                    created_at |-> now]
        IN
        \/ /\ InvalidGame(b)
           /\ greq' = [greq EXCEPT ![p] = GameDone(r, 400)]
           /\ UNCHANGED <<games, gnextId>>
        \/ /\ ~InvalidGame(b)
           /\ greq' = [greq EXCEPT ![p] = GameDone(q, 500)]
           /\ UNCHANGED <<games, gnextId>>
        \/ /\ ~InvalidGame(b)
           /\ NameTaken(games, b.name, gnextId)
           /\ greq' = [greq EXCEPT ![p] = GameDone(q, 409)]
           /\ UNCHANGED <<games, gnextId>>
        \/ /\ ~InvalidGame(b)
           /\ ~NameTaken(games, b.name, gnextId)
           /\ games' = games \cup {row}
           /\ gnextId' = gnextId + 1
           /\ greq' = [greq EXCEPT ![p] = [GameDone(q, 201) EXCEPT !.resGame = {row}]]
    /\ gnreq' = gnreq + 1
    /\ UNCHANGED gameOthers

\* The SET list of the dynamic UPDATE: the fields the body supplies.
ApplyGameUpdate(row, b) ==
    [row EXCEPT
        !.name = IF b.name # Undefined THEN b.name ELSE @,
        !.category = IF b.category # Undefined THEN b.category ELSE @,
        !.price = IF b.price # NoPrice THEN Price(b.price) ELSE @,
        !.description = IF b.description # Undefined THEN b.description ELSE @,
        !.featured = IF b.featured # Undefined THEN b.featured ELSE @]

\* PUT /games/:id arrives: SELECT * FROM games WHERE id = $1, then the
\* SET list is built.
GamePutSelect(p) ==
    /\ GameFree(p)
    /\ \E id \in GameIds, b \in PutGameBodies :
        LET r == [IdleGameReq EXCEPT !.kind = "put", !.id = id, !.body = b, !.stmts = 1]
            rows == {x \in games : x.id = id}
        IN
        \/ greq' = [greq EXCEPT ![p] = GameDone(r, 500)]
        \/ /\ id # BadId
           /\ greq' = [greq EXCEPT ![p] =
                IF rows = {} THEN GameDone(r, 404)
                ELSE IF b = NoGameBody THEN GameDone([r EXCEPT !.existingGame = rows], 400)
                ELSE [r EXCEPT !.pc = "update", !.existingGame = rows]]
    /\ gnreq' = gnreq + 1
    /\ UNCHANGED <<games, gnextId, gameOthers>>

\* UPDATE games SET ... WHERE id = $n RETURNING *, 409 on error 23505
GamePutUpdate(p) ==
    LET r == greq[p]
        q == [r EXCEPT !.stmts = r.stmts + 1]
        old == {x \in games : x.id = r.id}
        new == {ApplyGameUpdate(x, r.body) : x \in old}
    IN
    /\ r.pc = "update"
    /\ \/ /\ greq' = [greq EXCEPT ![p] = GameDone(q, 500)]
          /\ UNCHANGED games
       \/ /\ \E x \in new : NameTaken(games, x.name, x.id)
          /\ greq' = [greq EXCEPT ![p] = GameDone(q, 409)]
          /\ UNCHANGED games
       \/ /\ ~\E x \in new : NameTaken(games, x.name, x.id)
          /\ games' = (games \ old) \cup new
          /\ greq' = [greq EXCEPT ![p] = [GameDone(q, 200) EXCEPT !.resGame = new]]
    /\ UNCHANGED <<gnextId, gnreq, gameOthers>>

\* GET /games/:id
GameGet(p) ==
    /\ GameFree(p)
    /\ \E id \in GameIds :
        LET r == [IdleGameReq EXCEPT !.kind = "get", !.id = id, !.stmts = 1]
            rows == {x \in games : x.id = id}
        IN
        \/ greq' = [greq EXCEPT ![p] = GameDone(r, 500)]
        \/ /\ id # BadId
           /\ greq' = [greq EXCEPT ![p] =
                IF rows = {} THEN GameDone(r, 404)
                ELSE [GameDone(r, 200) EXCEPT !.resGame = rows]]
    /\ gnreq' = gnreq + 1
    /\ UNCHANGED <<games, gnextId, gameOthers>>

\* DELETE /games/:id: DELETE FROM games WHERE id = $1 RETURNING *
GameDelete(p) ==
    /\ GameFree(p)
    /\ \E id \in GameIds :
        LET r == [IdleGameReq EXCEPT !.kind = "delete", !.id = id, !.stmts = 1]
            rows == {x \in games : x.id = id}
        IN
        \/ /\ greq' = [greq EXCEPT ![p] = GameDone(r, 500)]
           /\ UNCHANGED games
        \/ /\ id # BadId
           /\ games' = games \ rows
           /\ greq' = [greq EXCEPT ![p] =
                IF rows = {} THEN GameDone(r, 404)
                ELSE [GameDone(r, 200) EXCEPT !.resGame = rows]]
    /\ gnreq' = gnreq + 1
    /\ UNCHANGED <<gnextId, gameOthers>>

\* The game service handling requests at the same time.
NextGames ==
    \E p \in Procs :
        \/ GamePost(p) \/ GamePutSelect(p) \/ GamePutUpdate(p)
        \/ GameGet(p) \/ GameDelete(p)

\* ================================================================ startup

Services == {"game", "order", "analytics"}

\* let retries = 5 (game and order service), let retries = 10 (analytics)
GameRetries == 5
OrderRetries == 5
AnalyticsRetries == 10

Retries(s) ==
    IF s = "game" THEN GameRetries
    ELSE IF s = "order" THEN OrderRetries
    ELSE AnalyticsRetries

\* setTimeout(r, 5000) between two attempts
RetryDelay == 5000

\* The statements of one attempt: CREATE TABLE games and the five seed
\* inserts; CREATE TABLE orders and order_items; CREATE DATABASE and CREATE
\* TABLE events.
Statements(s) == IF s = "game" THEN 6 ELSE 2

\* pool.query rejects when the statement fails.  fetch rejects only when
\* the request cannot be made: an error response of ClickHouse resolves,
\* and initClickHouse does not look at it.
Outcomes(s) == IF s = "analytics" THEN {"ok", "throws", "error response"} ELSE {"ok", "throws"}

\* The process as node starts it: initDB() / initClickHouse() is called.
Booting(s) ==
    [phase |-> "try", retries |-> Retries(s), stmt |-> 1, attempts |-> 0,
     made |-> {}, slept |-> 0, accepted |-> 0]

\* A service whose initialization succeeded at the first attempt.
Started(s) ==
    [Booting(s) EXCEPT !.phase = "listening", !.stmt = Statements(s) + 1,
        !.attempts = 1, !.made = 1..Statements(s)]

StartInit == svc = [s \in Services |-> Started(s)]

\* One awaited statement of the try block; break after the last one, then
\* app.listen; the catch block when it throws.
InitStatement(s) ==
    LET v == svc[s]
        a == [v EXCEPT !.attempts = IF v.stmt = 1 THEN v.attempts + 1 ELSE v.attempts]
    IN
    /\ v.phase = "try"
    /\ \E o \in Outcomes(s) :
        svc' = [svc EXCEPT ![s] =
            IF o = "throws"
            THEN [a EXCEPT !.retries = v.retries - 1,
                    !.phase = IF v.retries - 1 = 0 THEN "exited" ELSE "sleep"]
            ELSE [a EXCEPT !.made = IF o = "ok" THEN v.made \cup {v.stmt} ELSE v.made,
                    !.stmt = v.stmt + 1,
                    !.phase = IF v.stmt = Statements(s) THEN "listening" ELSE "try"]]
    /\ UNCHANGED startOthers

\* await new Promise(r => setTimeout(r, 5000)), then the next attempt
Backoff(s) ==
    /\ svc[s].phase = "sleep"
    /\ svc' = [svc EXCEPT ![s] =
            [svc[s] EXCEPT !.phase = "try", !.stmt = 1, !.slept = svc[s].slept + RetryDelay]]
    /\ UNCHANGED startOthers

\* A request reaches a route of the listening application.
Accept(s) ==
    /\ svc[s].phase = "listening"
    /\ svc["game"].accepted + svc["order"].accepted + svc["analytics"].accepted < MaxRequests
    /\ svc' = [svc EXCEPT ![s].accepted = svc[s].accepted + 1]
    /\ UNCHANGED startOthers

NextStartup == \E s \in Services : InitStatement(s) \/ Backoff(s) \/ Accept(s)

\* ======================================================= analytics service

\* A string of a request is a sequence of pieces of text; the piece "'" is
\* the quote character.  A field is a string or absent.
Str(s) == [has |-> TRUE, s |-> s]
NoStr == [has |-> FALSE, s |-> <<>>]

\* !x on a field: undefined and '' are falsy
Falsy(x) == ~x.has \/ x.s = <<>>

\* s.replace(/'/g, "''")
RECURSIVE Escape(_)
Escape(s) ==
    IF s = <<>> THEN <<>>
    ELSE (IF Head(s) = "'" THEN <<"'", "'">> ELSE <<Head(s)>>) \o Escape(Tail(s))

\* s.substring(0, n)
Substring(s, n) == SubSeq(s, 1, IF Len(s) < n THEN Len(s) ELSE n)

\* '${s}' in a query template
Quoted(s) == <<"'">> \o s \o <<"'">>

\* The timestamp 'YYYY-MM-DD HH:MM:SS' of a second of the clock, and the
\* second a string denotes (-1: no DateTime).
Digits == <<"0", "1", "2", "3", "4", "5", "6", "7", "8", "9">>

FormatTimestamp(t) == <<Digits[t + 1]>>

DateTimeOf(s) ==
    IF Len(s) = 1 /\ \E d \in 1..Len(Digits) : Digits[d] = s[1]
    THEN (CHOOSE d \in 1..Len(Digits) : Digits[d] = s[1]) - 1
    ELSE -1

\* ClickHouse reads a string literal that opens at position i of the query
\* text t: two quotes inside it are one quote character, one quote ends it.
\* It yields the value and the position after the literal (0: the query
\* ends inside the literal, or no literal opens at i).
RECURSIVE ScanLiteral(_, _, _)
ScanLiteral(t, i, acc) ==
    IF i > Len(t) THEN [value |-> acc, next |-> 0]
    ELSE IF t[i] # "'" THEN ScanLiteral(t, i + 1, Append(acc, t[i]))
    ELSE IF i < Len(t) /\ t[i + 1] = "'" THEN ScanLiteral(t, i + 2, Append(acc, "'"))
    ELSE [value |-> acc, next |-> i + 1]

Literal(t, i) ==
    IF i > Len(t) \/ t[i] # "'" THEN [value |-> <<>>, next |-> 0]
    ELSE ScanLiteral(t, i + 1, <<>>)

\* ClickHouse evaluates a WHERE clause on a row: a chain of comparisons
\* joined by AND, and by OR, which binds less.  conj is the value of the
\* conjunction being read, disj the value of the ones before it.  The
\* result is "true", "false" or "error" (the query is rejected).
RECURSIVE Where(_, _, _, _, _)
Where(t, i, row, conj, disj) ==
    IF i > Len(t) THEN (IF disj \/ conj THEN "true" ELSE "false")
    ELSE LET a == Literal(t, i + 1) IN
    IF t[i] = "WHERE 1=1" THEN Where(t, i + 1, row, TRUE, disj)
    ELSE IF a.next = 0 THEN "error"
    ELSE IF t[i] = " AND user_id = "
    THEN Where(t, a.next, row, conj /\ row.user_id = a.value, disj)
    ELSE IF t[i] = " AND session_id = "
    THEN Where(t, a.next, row, conj /\ row.session_id = a.value, disj)
    ELSE IF t[i] = " AND timestamp < "
    THEN IF DateTimeOf(a.value) < 0 THEN "error"
         ELSE Where(t, a.next, row, conj /\ row.timestamp < DateTimeOf(a.value), disj)
    ELSE IF t[i] = " OR "
    THEN LET b == Literal(t, a.next + 1) IN
         IF a.next > Len(t) \/ t[a.next] # "=" \/ b.next = 0 THEN "error"
         ELSE Where(t, b.next, row, a.value = b.value, disj \/ conj)
    ELSE "error"

\* The rows a query with the WHERE clause t selects, and whether
\* ClickHouse rejects the query.
Rejected(t) == \E row \in events \cup {[user_id |-> <<>>, session_id |-> <<>>, timestamp |-> 0]} :
                    Where(t, 1, row, TRUE, FALSE) = "error"

Matching(t) == {row \in events : Where(t, 1, row, TRUE, FALSE) = "true"}

\* let whereClause = 'WHERE 1=1', extended by the filters of the body:
\* user_id and session_id escaped, before_date as it came.
WhereClause(b) ==
    <<"WHERE 1=1">>
    \o (IF Falsy(b.user_id) THEN <<>>
        ELSE <<" AND user_id = ">> \o Quoted(Escape(b.user_id.s)))
    \o (IF Falsy(b.session_id) THEN <<>>
        ELSE <<" AND session_id = ">> \o Quoted(Escape(b.session_id.s)))
    \o (IF Falsy(b.before_date) THEN <<>>
        ELSE <<" AND timestamp < ">> \o Quoted(b.before_date.s))

\* The value ClickHouse stores for the literal an INSERT gives it; <<"?">>
\* stands for a literal it cannot read.
Stored(lit) ==
    LET a == Literal(lit, 1) IN
    IF a.next = Len(lit) + 1 THEN a.value ELSE <<"?">>

Event(n, session_id, user_id, timestamp) ==
    [n |-> n, session_id |-> session_id, user_id |-> user_id,
     event_type |-> <<"page_view">>, page_path |-> <<"/">>, page_url |-> <<"/">>,
     timestamp |-> timestamp, event_data |-> <<"{}">>]

\* The table outlives the service: it starts with events of two users,
\* stored in the seconds 0 and 1.
SeedEvents ==
    {Event(1, <<"s1">>, <<"u1">>, 0), Event(2, <<"s2">>, <<"u2">>, 1)}

NoFilters == [user_id |-> NoStr, session_id |-> NoStr, before_date |-> NoStr]

\* No request on this process.
IdleAnalyticsReq ==
    [pc |-> "idle", kind |-> "none", body |-> NoFilters, whereClause |-> <<>>,
     recordsToDelete |-> 0, res |-> 0, deleted_count |-> 0,
     removed |-> {}, seen |-> 0, writes |-> 0]

AnalyticsInit ==
    /\ events = SeedEvents
    /\ areq = [p \in Procs |-> IdleAnalyticsReq]
    /\ aclock = 1
    /\ anreq = 0
    /\ awrites = 2

AnalyticsFree(p) ==
    /\ areq[p].pc \in {"idle", "done"}
    /\ anreq < MaxRequests
    /\ areq[p].pc = "idle" => \A q \in Procs : q < p => areq[q].pc # "idle"

AnalyticsDone(r, status) == [r EXCEPT !.pc = "done", !.res = status]

\* The bodies of POST /analytics: a user whose id holds a quote, and a
\* body without session_id.
EventBodies ==
    {[session_id |-> Str(<<"s1">>), user_id |-> Str(<<"u1">>)],
     [session_id |-> Str(<<"s1">>), user_id |-> Str(<<"o", "'", "n">>)],
     [session_id |-> NoStr, user_id |-> Str(<<"u1">>)]}

\* The bodies of DELETE /analytics: no filter, a user, a date, both, an
\* empty user_id, and a before_date that closes the literal it is put in.
DeleteBodies ==
    {[NoFilters EXCEPT !.user_id = u, !.before_date = d] :
        u \in {NoStr, Str(<<>>), Str(<<"u1">>), Str(<<"o", "'", "n">>)},
        d \in {NoStr, Str(<<"1">>), Str(<<"2">>),
               Str(<<"1", "'", " OR ", "'", "1", "'", "=", "'", "1">>)}}

\* POST /analytics: validation, the INSERT built from the escaped fields
\* and the formatted time, 500 unless ClickHouse answers ok and nothing.
AnalyticsPost(p) ==
    /\ AnalyticsFree(p)
    /\ \E b \in EventBodies :
        LET r == [IdleAnalyticsReq EXCEPT !.kind = "post",
                    !.body = [NoFilters EXCEPT !.user_id = b.user_id,
                                               !.session_id = b.session_id]]
            row == Event(awrites + 1,
                        Stored(Quoted(Substring(Escape(b.session_id.s), 100))),
                        Stored(Quoted(Substring(Escape(b.user_id.s), 100))),
                        DateTimeOf(Stored(Quoted(FormatTimestamp(aclock)))))
        IN
        \/ /\ Falsy(b.session_id) \/ Falsy(b.user_id)
           /\ areq' = [areq EXCEPT ![p] = AnalyticsDone(r, 400)]
           /\ UNCHANGED <<events, awrites>>
        \/ /\ ~(Falsy(b.session_id) \/ Falsy(b.user_id))
           /\ areq' = [areq EXCEPT ![p] = AnalyticsDone(r, 500)]
           /\ UNCHANGED <<events, awrites>>
        \/ /\ ~(Falsy(b.session_id) \/ Falsy(b.user_id))
           /\ events' = events \cup {row}
           /\ awrites' = awrites + 1
           /\ areq' = [areq EXCEPT ![p] = AnalyticsDone(r, 200)]
    /\ anreq' = anreq + 1
    /\ UNCHANGED <<aclock, analyticsOthers>>

\* DELETE /analytics arrives: validation, the WHERE clause, then
\* SELECT count() ... FORMAT JSON.  ClickHouse writes the 64-bit count as a
\* number or, quoted, as a string, which is never === 0.
AnalyticsDeleteCount(p) ==
    /\ AnalyticsFree(p)
    /\ \E b \in DeleteBodies, quoted \in BOOLEAN :
        LET r == [IdleAnalyticsReq EXCEPT !.kind = "delete", !.body = b]
            t == WhereClause(b)
            total == Cardinality(Matching(t))
            q == [r EXCEPT !.whereClause = t, !.recordsToDelete = total,
                           !.seen = awrites]
        IN
        \/ /\ Falsy(b.user_id) /\ Falsy(b.session_id) /\ Falsy(b.before_date)
           /\ ~quoted
           /\ areq' = [areq EXCEPT ![p] = AnalyticsDone(r, 400)]
        \/ /\ ~(Falsy(b.user_id) /\ Falsy(b.session_id) /\ Falsy(b.before_date))
           /\ ~quoted
           /\ areq' = [areq EXCEPT ![p] =
                AnalyticsDone([r EXCEPT !.whereClause = t], 500)]
        \/ /\ ~(Falsy(b.user_id) /\ Falsy(b.session_id) /\ Falsy(b.before_date))
           /\ ~Rejected(t)
           /\ areq' = [areq EXCEPT ![p] =
                IF total = 0 /\ ~quoted THEN AnalyticsDone(q, 200)
                ELSE [q EXCEPT !.pc = "delete"]]
    /\ anreq' = anreq + 1
    /\ UNCHANGED <<events, aclock, awrites, analyticsOthers>>

\* ALTER TABLE lugx_analytics.events DELETE <whereClause>: the mutation
\* removes the rows that match when it is issued.
AnalyticsDeleteAlter(p) ==
    LET r == areq[p]
        rows == Matching(r.whereClause)
    IN
    /\ r.pc = "delete"
    /\ \/ /\ areq' = [areq EXCEPT ![p] = AnalyticsDone(r, 500)]
          /\ UNCHANGED <<events, awrites>>
       \/ /\ ~Rejected(r.whereClause)
          /\ events' = events \ rows
          /\ awrites' = awrites + 1
          /\ areq' = [areq EXCEPT ![p] =
                [AnalyticsDone(r, 200) EXCEPT !.deleted_count = r.recordsToDelete,
                    !.removed = rows, !.writes = awrites - r.seen]]
    /\ UNCHANGED <<aclock, anreq, analyticsOthers>>

\* A second passes.
AnalyticsTick ==
    /\ aclock < MaxClock
    /\ aclock' = aclock + 1
    /\ UNCHANGED <<events, areq, anreq, awrites, analyticsOthers>>

NextAnalytics ==
    \/ AnalyticsTick
    \/ \E p \in Procs :
        AnalyticsPost(p) \/ AnalyticsDeleteCount(p) \/ AnalyticsDeleteAlter(p)

\* ============================================================== deployment

\* services=("frontend" "game-service" "order-service" "analytics-service")
services == <<"frontend", "game-service", "order-service", "analytics-service">>

Deployments == {services[k] : k \in 1..Len(services)}

\* A deployment of the cluster: the revisions of its pod template, the
\* last one current, the annotation kubectl annotate set, and what the
\* script was told about it and which of its commands failed.
Deployed ==
    [history |-> <<"older", "old">>, annotation |-> "none",
     reported |-> "none", failed |-> {}, undone |-> FALSE]

\* The script that runs (none yet), the services it was asked to update,
\* the one it is at, its next command and its exit code (-1: running).
NotStarted ==
    [script |-> "none", todo |-> <<>>, i |-> 0, pc |-> "start", code |-> -1,
     started |-> <<>>, built |-> TRUE]

DeployInit ==
    /\ cluster = [s \in Deployments |-> Deployed]
    /\ dep = NotStarted

\* The service the script is at.
Current == dep.todo[dep.i]

\* A command of the script failed: the script goes on (no command of
\* update_service runs under set -e, which the if ! around its call
\* switches off, and the build script does not set it).
Fails(s, command) == [cluster EXCEPT ![s].failed = @ \cup {command}]

\* The template kubectl set image and kubectl patch leave as a new
\* revision.
NewRevision(d, template) == [d EXCEPT !.history = Append(d.history, template)]

\* kubectl rollout undo: the revision before the current one is current
\* again.
Undo(d) == [d EXCEPT !.history = SubSeq(d.history, 1, Len(d.history) - 1), !.undone = TRUE]

\* The rolling deployment helper is started for all services or for one.
StartDeploy ==
    /\ dep.pc = "start"
    /\ \E todo \in {services} \cup {<<s>> : s \in Deployments} :
        dep' = [dep EXCEPT !.script = "deploy", !.todo = todo, !.i = 1,
                    !.pc = "set image", !.started = <<todo[1]>>]
    /\ UNCHANGED <<cluster, deployOthers>>

\* The build script is started: docker build and kind load for the four
\* images, whose failures it does not look at.
StartBuild ==
    /\ dep.pc = "start"
    /\ \E ok \in BOOLEAN :
        dep' = [dep EXCEPT !.script = "build", !.todo = services, !.i = 1,
                    !.pc = "patch", !.started = <<services[1]>>, !.built = ok]
    /\ UNCHANGED <<cluster, deployOthers>>

\* kubectl set image deployment/$service $service=lugx-gaming/$service:$image_tag
SetImage ==
    /\ dep.pc = "set image"
    /\ \/ cluster' = [cluster EXCEPT ![Current] = NewRevision(@, "new")]
       \/ cluster' = Fails(Current, "set image")
    /\ dep' = [dep EXCEPT !.pc = "annotate"]
    /\ UNCHANGED deployOthers

\* kubectl annotate deployment $service deployment.kubernetes.io/revision=... --overwrite
Annotate ==
    /\ dep.pc = "annotate"
    /\ \/ cluster' = [cluster EXCEPT ![Current].annotation = "new"]
       \/ cluster' = Fails(Current, "annotate")
    /\ dep' = [dep EXCEPT !.pc = "rollout status"]
    /\ UNCHANGED deployOthers

\* kubectl patch deployment $service -p '{"spec":{"template":{"metadata":...}}}'
Patch ==
    /\ dep.pc = "patch"
    /\ \/ cluster' = [cluster EXCEPT ![Current] = NewRevision(@, "new")]
       \/ cluster' = Fails(Current, "patch")
    /\ dep' = [dep EXCEPT !.pc = "rollout status"]
    /\ UNCHANGED deployOthers

\* kubectl rollout status deployment/$service --timeout=300s: the rollout
\* of the current revision, updated or not, is healthy in time or is not.
RolloutStatus ==
    /\ dep.pc = "rollout status"
    /\ \/ /\ cluster' = [cluster EXCEPT ![Current].reported = "healthy"]
          /\ dep' = [dep EXCEPT !.pc = IF dep.script = "deploy" THEN "verify" ELSE "sleep"]
       \/ /\ cluster' = [Fails(Current, "rollout status") EXCEPT ![Current].reported = "failed"]
          /\ dep' = [dep EXCEPT !.pc = "undo"]
    /\ UNCHANGED deployOthers

\* replicas=$(kubectl get ...), desired=$(kubectl get ...), echo, return 0
Verify ==
    /\ dep.pc = "verify"
    /\ \/ UNCHANGED cluster
       \/ cluster' = Fails(Current, "get")
    /\ dep' = [dep EXCEPT !.pc = "sleep"]
    /\ UNCHANGED deployOthers

\* kubectl rollout undo deployment/$service, return 1, exit 1
RolloutUndo ==
    /\ dep.pc = "undo"
    /\ \/ cluster' = [cluster EXCEPT ![Current] = Undo(@)]
       \/ cluster' = Fails(Current, "undo")
    /\ dep' = [dep EXCEPT !.pc = "exited", !.code = 1]
    /\ UNCHANGED deployOthers

\* sleep 15 (sleep 10 in the build script), then the next service; after
\* the last one the closing commands, whose failures change nothing.
Sleep ==
    /\ dep.pc = "sleep"
    /\ dep' = IF dep.i < Len(dep.todo)
              THEN [dep EXCEPT !.i = dep.i + 1,
                        !.pc = IF dep.script = "deploy" THEN "set image" ELSE "patch",
                        !.started = Append(dep.started, dep.todo[dep.i + 1])]
              ELSE [dep EXCEPT !.pc = "exited", !.code = 0]
    /\ UNCHANGED <<cluster, deployOthers>>

NextDeploy ==
    \/ StartDeploy \/ StartBuild
    \/ SetImage \/ Annotate \/ Patch \/ RolloutStatus \/ Verify \/ RolloutUndo \/ Sleep

\* ------------------------------------------------------------ the system

Init == OrdersInit /\ GamesInit /\ StartInit /\ AnalyticsInit /\ DeployInit

\* The three processes are started.
InitStartup ==
    /\ OrdersInit /\ GamesInit /\ AnalyticsInit /\ DeployInit
    /\ svc = [s \in Services |-> Booting(s)]

\* A millisecond passes.
Tick ==
    /\ now < MaxClock
    /\ now' = now + 1
    /\ UNCHANGED <<orders, order_items, conn, req, nextId, nreq, faults, ordersTotal, others>>

\* The items request bodies are built from: the two items of the
\* specification's example, an item without a price, one whose price is no
\* number, one without a title, and items with quantity 0 and -1.
GameA == Item("Game A", Num(1999), Qty(2))
GameB == Item("Game B", Num(500), Qty(1))
Unpriced == Item("Game C", NoPrice, NoQty)

ItemPool ==
    {GameA, GameB, Unpriced,
     Item("Game C", BadPrice, Qty(1)), Item(Undefined, Num(500), NoQty),
     Item("Game D", Num(500), Qty(0)), Item("Game D", Num(500), Qty(-1))}

Lists(Pool) == UNION {[1..n -> Pool] : n \in 0..MaxItems}

\* Every shape of body POST /orders tells apart.
Body(u, k, l, e) ==
    [user_id |-> u, items_kind |-> k, items |-> l, customer_email |-> e]

PostBodies ==
    {Body("u1", "array", l, Undefined) : l \in Lists(ItemPool)}
    \cup {Body("u1", "array", <<GameA>>, "a@x"),
          Body(Undefined, "array", <<GameA>>, Undefined),
          Body("u1", "missing", <<>>, Undefined),
          Body("u1", "notarray", <<>>, Undefined),
          Body(Undefined, "missing", <<>>, Undefined)}

\* The bodies of the requests handled at the same time: orders of the
\* example's items and of an item the store rejects, and a body without
\* items.
FewBodies ==
    {Body("u1", "array", l, "a@x") : l \in Lists({GameA, Unpriced})}
    \cup {Body("u1", "missing", <<>>, Undefined)}

Handle(p, Bodies) ==
    \/ PostBegin(p, Bodies) \/ PostInsertOrder(p) \/ PostInsertItem(p)
    \/ PostCommit(p) \/ PostCatch(p)
    \/ PutSelect(p) \/ PutUpdate(p)
    \/ GetSelectOrder(p) \/ GetSelectItems(p)
    \/ DeleteBegin(p) \/ DeleteSelect(p) \/ DeleteDelete(p)
    \/ DeleteCommit(p) \/ DeleteCatch(p)

\* Requests handled at the same time.
Next == Tick \/ \E p \in Procs : Handle(p, FewBodies)

Spec == Init /\ [][Next]_vars

\* Requests handled one after the other, with every shape of body.
NextSeq == Tick \/ Handle(1, PostBodies)

SpecSeq == Init /\ [][NextSeq]_vars

SpecGames == Init /\ [][NextGames]_vars

SpecStartup == InitStartup /\ [][NextStartup]_vars

SpecAnalytics == Init /\ [][NextAnalytics]_vars

SpecDeploy == Init /\ [][NextDeploy]_vars

\* ================================================================ claims

Done(p, kind) == req[p].kind = kind /\ req[p].pc = "done"

\* The request's body passes the handler's validation.
Accepted(r) == ~Invalid(r.user_id, r.items_kind)

\* The sum over the items of product_price x quantity, an absent quantity
\* counted as 1.
RECURSIVE LineSum(_)
LineSum(items) ==
    IF items = <<>> THEN 0
    ELSE LET item == items[Len(items)] IN
         LineSum(SubSeq(items, 1, Len(items) - 1))
         + item.product_price.v * (IF item.quantity.has THEN item.quantity.v ELSE 1)

\* C1: the total_amount persisted for an accepted order-creation request
\* equals the sum over its items of product_price x quantity, an absent
\* quantity counted as 1 (items (19.99, 2) and (5.00, 1) give 44.98).
C1_TotalIsPriceTimesQuantity ==
    \A p \in Procs :
        Done(p, "post") /\ req[p].res = 201 =>
            \A o \in orders :
                o.id \in Ids(req[p].order) => o.total_amount = LineSum(req[p].items)

\* C2: order creation with a missing items field or an empty items list
\* answers 400 and inserts no header row (here: whenever no statement of
\* the request failed).
C2_EmptyOrMissingItemsRejected ==
    \A p \in Procs :
        /\ Done(p, "post")
        /\ req[p].threw = "none"
        /\ req[p].items_kind = "missing"
            \/ (req[p].items_kind = "array" /\ req[p].items = <<>>)
        => req[p].res = 400 /\ req[p].order = {}

\* C4: an order-creation request with an item whose product_price is
\* missing or not numeric is not rejected: absent any storage fault, the
\* order is created and persisted.
C4_UnpricedItemAccepted ==
    \A p \in Procs :
        /\ Done(p, "post")
        /\ Accepted(req[p])
        /\ faults = 0
        /\ nreq = 1
        /\ \A i \in 1..Len(req[p].items) : req[p].items[i].product_title # Undefined
        /\ \E i \in 1..Len(req[p].items) : req[p].items[i].product_price.k # "num"
        => /\ req[p].res = 201
           /\ Ids(req[p].order) \subseteq Ids(orders)

\* What the specification asks the validation to reject.
BadItem(item) ==
    \/ item.product_price.k # "num"
    \/ item.quantity.has /\ item.quantity.v <= 0

Malformed(r) ==
    \/ Invalid(r.user_id, r.items_kind)
    \/ \E i \in 1..Len(r.items) : BadItem(r.items[i])

\* C10: a create-order request that fails validation is rejected with a
\* validation error before any statement, BEGIN included, is issued (here:
\* on connections that are never lost).
C10_RejectedBeforeStorage ==
    \A p \in Procs :
        Done(p, "post") /\ Malformed(req[p]) /\ faults = 0 =>
            req[p].res = 400 /\ req[p].stmts = 0

\* C9: the order number a creation request generates differs from the
\* order number of every other order, committed or being created.
C9_OrderNumbersDiffer ==
    \A p \in Procs :
        req[p].kind = "post" /\ req[p].pc = "insert_order" =>
            /\ \A o \in orders : o.order_number # req[p].orderNum
            /\ \A q \in Procs \ {p} :
                req[q].kind = "post" /\ req[q].pc \in {"insert_order", "insert_item", "commit"}
                    => req[q].orderNum # req[p].orderNum

\* ------------------------------------------------------------------ C3

\* The creation on process p inserted its header and is uncommitted, or
\* failed at the insertion of an item.
Uncommitted(p) ==
    /\ req[p].kind = "post"
    /\ req[p].order # {}
    /\ \/ req[p].pc \in {"insert_item", "commit"}
       \/ req[p].pc \in {"catch", "done"} /\ req[p].threw = "insert_item"

\* The connections a reader other than the creation itself may use.
Readers(p) == IF req[p].pc = "done" THEN Conns ELSE Conns \ {req[p].client}

\* C3: order creation is all-or-nothing.  While a creation is uncommitted,
\* and after it failed at the insertion of an item, no other connection
\* sees its header or any of its items, no GET returned them, and once the
\* request has ended the tables hold neither.
C3_AllOrNothing ==
    \A p \in Procs :
        Uncommitted(p) =>
            LET ids == Ids(req[p].order) IN
            /\ \A c \in Readers(p) :
                /\ \A o \in VisibleOrders(conn[c]) : o.id \notin ids
                /\ \A x \in VisibleItems(conn[c]) : x.order_id \notin ids
            /\ \A q \in Procs :
                req[q].kind = "get" /\ req[q].id \in ids =>
                    req[q].order = {} /\ req[q].resOrder = {} /\ req[q].resItems = {}
            /\ req[p].pc = "done" =>
                /\ req[p].res \in {0, 500}
                /\ \A o \in orders : o.id \notin ids
                /\ \A x \in order_items : x.order_id \notin ids

\* A creation failed at its second item, after the header and the first
\* item were inserted, and was rolled back.
C3_Witness ==
    \E p \in Procs :
        /\ Done(p, "post")
        /\ req[p].threw = "insert_item"
        /\ req[p].i = 2
        /\ req[p].res = 500

\* ------------------------------------------------------------------ C5

\* The request on process p holds a connection.
Holding(p) == req[p].kind \in {"post", "delete"} /\ req[p].pc \notin {"idle", "done"}

\* C5: a connection is checked out exactly while a creation or deletion
\* runs, and every such request has released its connection exactly once
\* when it ends, on every exit path.
C5_ReleasedExactlyOnce ==
    /\ \A p \in Procs :
        /\ Holding(p) => req[p].acquired = 1 /\ req[p].released = 0
        /\ req[p].pc = "done" => req[p].released = req[p].acquired
        /\ req[p].kind \in {"put", "get"} => req[p].acquired = 0
    /\ \A c \in Conns :
        conn[c].busy <=> \E p \in Procs : Holding(p) /\ req[p].client = c
    /\ \A p, q \in Procs :
        Holding(p) /\ Holding(q) /\ p # q => req[p].client # req[q].client

\* A creation whose ROLLBACK failed ended without a response and released
\* its connection; no connection is checked out.
C5_Witness ==
    /\ \E p \in Procs :
        /\ Done(p, "post")
        /\ req[p].threw = "insert_item"
        /\ req[p].res = 0
        /\ req[p].released = 1
    /\ \A c \in Conns : ~conn[c].busy

\* ------------------------------------------------------------------ C6

SixStatuses == {"pending", "confirmed", "processing", "shipped", "delivered", "cancelled"}

\* Every version of an order row: committed, or written by a transaction.
AllRows == orders \cup UNION {conn[c].ins \cup conn[c].upd : c \in Conns}

\* C6: a status update that found its order is rejected (400, with the six
\* valid values, no row changed) exactly when the requested status is
\* outside the six values, whatever the current status; every order's
\* status is one of the six, and a created order is pending.
C6_StatusInSet ==
    /\ [](\A o \in AllRows : o.status \in SixStatuses)
    /\ [](\A p \in Procs :
        /\ req[p].kind = "post" => \A o \in req[p].order : o.status = "pending"
        /\ req[p].kind = "put" /\ req[p].status # Undefined /\ req[p].order # {} =>
            /\ req[p].status \notin SixStatuses =>
                /\ req[p].pc = "done"
                /\ req[p].res = 400
                /\ req[p].resValid = SixStatuses
                /\ req[p].resOrder = {}
            /\ req[p].status \in SixStatuses =>
                /\ req[p].res # 400
                /\ req[p].resValid = {}
                /\ \A o \in req[p].resOrder : o.status = req[p].status)
    /\ [][\A p \in Procs :
            /\ req'[p] # req[p]
            /\ req'[p].kind = "put"
            /\ req'[p].status \notin SixStatuses \cup {Undefined}
            => /\ UNCHANGED <<orders, order_items>>
               /\ \A c \in Conns : conn'[c].upd \subseteq conn[c].upd]_vars

\* An order that was delivered was set back to pending.
C6_Witness ==
    \E p \in Procs :
        /\ Done(p, "put")
        /\ req[p].res = 200
        /\ req[p].status = "pending"
        /\ \E o \in req[p].order : o.status = "delivered"
        /\ \E o \in orders : o.id = req[p].id /\ o.status = "pending"

\* ------------------------------------------------------------------ C7

\* The step is one of the PUT handled by process p.
PutStep(p) == req'[p] # req[p] /\ req'[p].kind = "put"

\* Row x is row y with the fields the body r supplies, and no other
\* field, overwritten.
OnlySupplied(x, y, r) ==
    /\ x.id = y.id
    /\ x.order_number = y.order_number
    /\ x.user_id = y.user_id
    /\ x.total_amount = y.total_amount
    /\ x.created_at = y.created_at
    /\ x.status = (IF r.status = Undefined THEN y.status ELSE r.status)
    /\ x.customer_email =
        (IF r.customer_email = Undefined THEN y.customer_email ELSE r.customer_email)

\* C7: an order update changes only the fields supplied among status and
\* customer_email, of the one order it names: every other field, every
\* other order and every order item stays; an update that supplies neither
\* field is rejected with 400 and changes nothing.
C7_UpdateFrame ==
    [][\A p \in Procs :
        PutStep(p) =>
            LET r == req'[p] IN
            /\ order_items' = order_items
            /\ Ids(orders') = Ids(orders)
            /\ \A x \in orders' :
                x \in orders \/ (x.id = r.id /\ \E y \in orders : OnlySupplied(x, y, r))
            /\ \A c \in Conns :
                /\ conn'[c].items \subseteq conn[c].items
                /\ conn'[c].ins \subseteq conn[c].ins
                /\ conn'[c].del \subseteq conn[c].del
                /\ \A x \in conn'[c].upd :
                    \/ x \in conn[c].upd
                    \/ x.id = r.id /\ \E y \in VisibleOrders(conn[c]) : OnlySupplied(x, y, r)
            /\ \A x \in r.resOrder : x.id = r.id /\ x \in orders' \cup UNION {conn'[c].upd : c \in Conns}
            /\ r.status = Undefined /\ r.customer_email = Undefined /\ r.order # {} =>
                r.pc = "done" /\ r.res = 400
            /\ r.res = 400 => UNCHANGED <<orders, order_items, conn>>]_vars

\* An update of the status alone was applied: the order has the new status
\* and the email it had.
C7_Witness ==
    \E p \in Procs :
        /\ Done(p, "put")
        /\ req[p].res = 200
        /\ req[p].status = "delivered"
        /\ req[p].customer_email = Undefined
        /\ \E o \in orders :
            o.id = req[p].id /\ o.status = "delivered" /\ o.customer_email = "a@x"
        /\ \E o \in req[p].order : o.status = "pending"

\* ------------------------------------------------------------------ C8

\* The step is one of the DELETE handled by process p.
DeleteStep(p) == req'[p] # req[p] /\ req'[p].kind = "delete"

C11_QuantityPositive ==
    /\ \A x \in order_items : x.quantity >= 1
    /\ \A p \in Procs :
        Done(p, "post") /\ req[p].res = 201 =>
            \A i \in 1..Len(req[p].items) :
                ~req[p].items[i].quantity.has =>
                    \E x \in order_items :
                        x.id = <<(CHOOSE o \in req[p].order : TRUE).id, i>> /\ x.quantity = 1

\* ----------------------------------------------------------------- C12

\* The step is one of the request the game service handles on process p.
GameStep(p) == greq'[p] # greq[p]

\* Another entry than id has the name.
NameOfAnother(name, id) == \E x \in games : x.name = name /\ x.id # id

\* C12: no two catalog entries have the same name.  A POST /games with a
\* valid body whose name an entry has, and a PUT /games/:id that renames an
\* entry to the name of another entry, answer 409 (500 when the store
\* fails) and change no entry; 409 is answered in no other case.
C12_UniqueNames ==
    /\ [](\A x, y \in games : x.name = y.name \/ x.id = y.id => x = y)
    /\ [][\A p \in Procs :
            GameStep(p) =>
                LET r == greq'[p] IN
                /\ /\ r.kind = "post"
                   /\ ~InvalidGame(r.body)
                   /\ NameOfAnother(r.body.name, gnextId)
                   => r.res \in {409, 500} /\ games' = games
                /\ /\ r.kind = "put"
                   /\ greq[p].pc = "update"
                   /\ r.id \in Ids(games)
                   /\ r.body.name # Undefined
                   /\ NameOfAnother(r.body.name, r.id)
                   => r.res \in {409, 500} /\ games' = games
                /\ r.res = 409 =>
                    /\ games' = games
                    /\ NameOfAnother(r.body.name, IF r.kind = "post" THEN gnextId ELSE r.id)]_vars

\* A creation and a rename were both answered 409 for a name the catalog
\* has, and the catalog is the one the service started with.
C12_Witness ==
    \E p, q \in Procs :
        /\ greq[p].kind = "post" /\ greq[p].res = 409 /\ greq[p].body.name = "Fortnite"
        /\ greq[q].kind = "put" /\ greq[q].res = 409 /\ greq[q].body.name = "Fortnite"
        /\ greq[q].id = 3
        /\ games = SeedGames

\* ----------------------------------------------------------------- C13

\* C13: each service makes at most 5 schema-initialization attempts, 5
\* seconds apart; it listens, and accepts requests, only after an attempt
\* in which every statement took effect, and a process that exited made 5
\* attempts and accepted no request.
C13_FiveAttemptsThenExit ==
    \A s \in Services :
        LET v == svc[s] IN
        /\ v.attempts <= 5
        /\ v.phase = "listening" =>
            /\ v.made = 1..Statements(s)
            /\ v.slept = RetryDelay * (v.attempts - 1)
        /\ v.accepted > 0 => v.phase = "listening"
        /\ v.phase = "exited" => v.attempts = 5 /\ v.accepted = 0

\* ----------------------------------------------------------------- C14

\* C14: a DELETE /analytics without user_id, session_id and before_date is
\* answered 400 and removes no event; one with before_date removes only
\* events whose timestamp is strictly older than that date; and when no
\* other statement wrote the table between its count and its deletion, the
\* deleted_count it reports is the number of events it removed.
C14_BulkDelete ==
    \A p \in Procs :
        LET r == areq[p] IN
        r.kind = "delete" =>
            /\ Falsy(r.body.user_id) /\ Falsy(r.body.session_id) /\ Falsy(r.body.before_date) =>
                r.res = 400 /\ r.removed = {} /\ r.whereClause = <<>>
            /\ ~Falsy(r.body.before_date) =>
                \A row \in r.removed :
                    /\ DateTimeOf(r.body.before_date.s) >= 0
                    /\ row.timestamp < DateTimeOf(r.body.before_date.s)
            /\ r.pc = "done" /\ r.res = 200 /\ r.writes = 0 =>
                r.deleted_count = Cardinality(r.removed)

\* ----------------------------------------------------------------- C15

\* The commands that make up the update of a service.
UpdateSteps == {"set image", "annotate", "patch", "rollout status"}

\* C15: a deployment of all services updates them in the order of the
\* list, one at a time, each only after the rollout of the one before was
\* reported healthy; once a step of a service's update has failed or its
\* rollout has timed out, no later service is updated, and the script ends
\* with exit code 1 and that service back at the revision it had (here:
\* unless kubectl rollout undo fails itself).
C15_RollingDeployment ==
    dep.todo = services =>
        /\ \A k \in 1..Len(dep.started) : dep.started[k] = services[k]
        /\ \A k \in 2..Len(dep.started) :
            cluster[dep.started[k - 1]].reported = "healthy"
        /\ \A k \in 1..Len(dep.started) :
            LET d == cluster[dep.started[k]] IN
            d.failed \cap UpdateSteps # {} =>
                /\ Len(dep.started) = k
                /\ dep.pc = "exited" =>
                    /\ dep.code = 1
                    /\ "undo" \notin d.failed =>
                        d.undone /\ d.history = Deployed.history

\* ----------------------------------------------------------------- C16

\* C16: a connection that is in the pool is outside any transaction: on
\* every exit path of a creation and of a deletion the BEGIN was followed
\* by a COMMIT or a ROLLBACK before the release, so that no later request
\* runs inside a transaction an earlier one left open.
C16_NoOpenTransactionReleased ==
    \A c \in Conns : ~conn[c].busy => conn[c].txn = "none"

\* ----------------------------------------------------------------- C17

\* C17: of the DELETE requests for one order id, handled at the same time
\* or not, at most one answers 200; every other one answers 404 (here: on
\* connections that are never lost).
C17_OneDeleteSucceeds ==
    \A p, q \in Procs :
        /\ p # q
        /\ Done(p, "delete") /\ Done(q, "delete")
        /\ req[p].id = req[q].id
        /\ req[p].res = 200
        /\ faults = 0
        => req[q].res = 404

\* ----------------------------------------------------------------- C18

\* C18: a PUT /orders/:id that answers 200 returns the updated order row;
\* when the order was deleted after the existence check, it answers 404.
C18_UpdateReturnsRow ==
    \A p \in Procs :
        Done(p, "put") /\ req[p].res = 200 =>
            /\ req[p].resOrder # {}
            /\ \A o \in req[p].resOrder : o.id = req[p].id

\* ----------------------------------------------------------------- C19

\* C19: a GET /orders/:id that answers 200 returns the order together with
\* exactly the items inserted when the order was created: the item of the
\* order the service started with, and one item for each element of the
\* items list of the creation request, whatever is created or deleted
\* meanwhile.
C19_ReadIsConsistent ==
    \A p \in Procs :
        Done(p, "get") /\ req[p].res = 200 =>
            /\ Ids(req[p].resOrder) = {req[p].id}
            /\ \A x \in req[p].resItems : x.order_id = req[p].id
            /\ req[p].id = SeedOrder.id => req[p].resItems = {SeedItem}
            /\ \A q \in Procs :
                req[q].kind = "post" /\ req[p].id \in Ids(req[q].order) =>
                    Cardinality(req[p].resItems) = Len(req[q].items)

====
